---- MODULE Spec2Model ----
(***************************************************************************)
(* The questions resource of Dinamica-PalavrasEmbaralhadas: the handlers   *)
(* GET and POST of /api/questions and PUT and DELETE of                    *)
(* /api/questions/[id], over the table `questions` of the relational store.*)
(*                                                                         *)
(* Every `await pool.query(...)` is one atomic statement of the store and  *)
(* one step of the handler that issues it; the code before the first       *)
(* statement and after the last one touches only the handler's locals and  *)
(* is folded into the neighbouring step.  A handler runs in a request slot *)
(* p; `loc[p]` holds its local variables between two statements.           *)
(*                                                                         *)
(* The table is modelled with the columns the handlers name and with no    *)
(* constraint besides the primary key: the handlers are the only           *)
(* validation the source contains.                                         *)
(***************************************************************************)
EXTENDS Integers, Sequences, FiniteSets, TLC

VARIABLES
    rows,       \* the table: id -> row
    hasHint1,   \* whether the table has the optional column hint1
    nextId,     \* the id sequence of the table (also the clock of created_at)
    pc,         \* per slot: "ready" or the statement the handler issues next
    req,        \* per slot: the slot's latest request (operation, id, query, body)
    loc,        \* per slot: the handler's locals while it is in flight
    resp,       \* per slot: the response to the slot's latest request
    conv,       \* the type-vocabulary adapter applied to an input, step by step
    confirmOpen,    \* QuestionForm: whether the deletion dialog is shown
    pendingDelete,  \* QuestionForm: the target of the deletion dialog, or none
    clicked,        \* QuestionForm: the handler the latest click has run
    calls           \* QuestionForm: the ids onDelete has been called with, in order

storeVars == <<rows, hasHint1, nextId, pc, req, loc, resp>>
formVars == <<confirmOpen, pendingDelete, clicked, calls>>
vars == <<rows, hasHint1, nextId, pc, req, loc, resp, conv,
          confirmOpen, pendingDelete, clicked, calls>>

-----------------------------------------------------------------------------
(* Bounds *)

\* Number of rows the id sequence hands out in a behaviour.
MaxId == 2

\* The same, where the requests are drawn from the narrower input sets.
MaxIdNarrow == 3

\* The longest chain of conversions applied to one input.
MaxConv == 3

\* The most calls of onDelete followed.
MaxCalls == 3

\* Request slots.
Procs == {"p1", "p2", "p3"}

-----------------------------------------------------------------------------
(* JavaScript / JSON values.  A string is the sequence of its whitespace   *)
(* characters " " and its words, so that trim() is computed.               *)

Null == [t |-> "null"]
Str(s) == [t |-> "str", v |-> s]
Num(n) == [t |-> "num", v |-> n]
Arr(a) == [t |-> "arr", v |-> a]
NaN == [t |-> "nan"]
Infinity == [t |-> "inf"]
\* A column a statement did not select.
Absent == [t |-> "absent"]

Word(w) == Str(<<w>>)
Padded(w) == Str(<<" ", w, " ">>)
Blank == Str(<<" ">>)

RECURSIVE TrimLeft(_)
TrimLeft(s) == IF s # <<>> /\ Head(s) = " " THEN TrimLeft(Tail(s)) ELSE s

RECURSIVE TrimRight(_)
TrimRight(s) ==
    IF s # <<>> /\ s[Len(s)] = " " THEN TrimRight(SubSeq(s, 1, Len(s) - 1)) ELSE s

\* String.prototype.trim
trim(v) == Str(TrimRight(TrimLeft(v.v)))

isNonEmptyString(v) == v.t = "str" /\ Len(trim(v).v) > 0

\* JavaScript truthiness of the values the handlers test.
Truthy(v) ==
    CASE v.t = "null" -> FALSE
      [] v.t = "nan" -> FALSE
      [] v.t = "str" -> v.v # <<>>
      [] v.t = "num" -> v.v # 0
      [] OTHER -> TRUE

\* toDbType with the fallback on the other storage tag.
toDbTypeFallbackMcq(t) ==
    IF t = Word("OPEN") \/ t = Word("discursiva")
    THEN Word("discursiva")
    ELSE Word("multipla_escolha")

toDbType(t) ==
    IF t = Word("MCQ") \/ t = Word("multipla_escolha")
    THEN Word("multipla_escolha")
    ELSE Word("discursiva")

toApiType(t) ==
    IF t = Word("multipla_escolha") \/ t = Word("MCQ")
    THEN Word("MCQ")
    ELSE Word("OPEN")

\* CASE WHEN type = 'multipla_escolha' THEN 'MCQ' ELSE 'OPEN' END
SqlCaseType(t) == IF t = Word("multipla_escolha") THEN Word("MCQ") ELSE Word("OPEN")

-----------------------------------------------------------------------------
(* Responses *)

NoResp == [status |-> 0, body |-> Null]
Json(status, body) == [status |-> status, body |-> body]
ErrorBody == [t |-> "error"]
MessageBody == [t |-> "message"]

-----------------------------------------------------------------------------
(* The store *)

Ids == DOMAIN rows

RECURSIVE OrderDesc(_)
\* ORDER BY created_at DESC, over a set of ids: created_at grows with the id.
OrderDesc(S) ==
    IF S = {} THEN <<>>
    ELSE LET m == CHOOSE x \in S : \A y \in S : y <= x
         IN  <<m>> \o OrderDesc(S \ {m})

\* WHERE difficulty = $1, or no WHERE clause
Matching(difficulty) ==
    IF Truthy(difficulty)
    THEN {i \in Ids : rows[i].difficulty = difficulty}
    ELSE Ids

\* LIMIT / OFFSET over a sequence
Page(s, limit, offset) ==
    SubSeq(s, offset + 1, IF offset + limit < Len(s) THEN offset + limit ELSE Len(s))

\* The select list of the list query, for one row.
SelectRow(r, withHint1) ==
    [id |-> r.id, text |-> r.text, difficulty |-> r.difficulty,
     type |-> SqlCaseType(r.type), answer |-> r.answer,
     hint1 |-> IF withHint1 THEN r.hint1 ELSE Absent,
     options |-> r.options, correctIndex |-> r.correctIndex,
     createdAt |-> r.createdAt, usedAt |-> r.usedAt]

-----------------------------------------------------------------------------
(* Inputs *)

PageParams == {Null, Num(0), Num(2)}
LimitParams == {Null, NaN, Infinity, Num(0), Num(1), Num(2), Num(200), Num(201)}
DifficultyParams == {Null, Word("facil")}

DefaultPage == 1
DefaultLimit == 5
MaxLimit == 200

\* Number(searchParams.get(name) ?? dflt)
QueryNumber(v, dflt) == IF v = Null THEN Num(dflt) ELSE v

IsFinite(v) == v.t = "num"

ResolvePage(v) ==
    LET pageRaw == QueryNumber(v, DefaultPage)
    IN  IF IsFinite(pageRaw) /\ pageRaw.v > 0 THEN pageRaw.v ELSE DefaultPage

ResolveLimit(v) ==
    LET limitRaw == QueryNumber(v, DefaultLimit)
    IN  IF IsFinite(limitRaw) /\ limitRaw.v > 0 /\ limitRaw.v <= MaxLimit
        THEN limitRaw.v ELSE DefaultLimit

\* Math.floor(a / b) in place of Math.ceil
Floor(a, b) == a \div b

\* Math.ceil(a / b) for a >= 0, b > 0
Ceil(a, b) == (a + b - 1) \div b

TotalPages(total, limit) ==
    LET c == Ceil(total, limit) IN IF c > 1 THEN c ELSE 1

-----------------------------------------------------------------------------
(* Slots *)

Ready(p) == pc[p] = "ready"

Finish(p, r) ==
    /\ pc' = [pc EXCEPT ![p] = "ready"]
    /\ loc' = [loc EXCEPT ![p] = Null]
    /\ resp' = [resp EXCEPT ![p] = r]

Goto(p, label, locals) ==
    /\ pc' = [pc EXCEPT ![p] = label]
    /\ loc' = [loc EXCEPT ![p] = locals]
    /\ resp' = [resp EXCEPT ![p] = NoResp]

\* The table before any request, with or without the column hint1.
StoreInit ==
    /\ rows = << >>
    /\ hasHint1 \in BOOLEAN
    /\ nextId = 1
    /\ pc = [p \in Procs |-> "ready"]
    /\ req = [p \in Procs |-> [op |-> "none"]]
    /\ loc = [p \in Procs |-> Null]
    /\ resp = [p \in Procs |-> NoResp]

\* No target of the deletion dialog.
NoTarget == Null

\* useState(false), useState(null): the dialog closed, nothing clicked yet.
FormInit ==
    /\ confirmOpen = FALSE
    /\ pendingDelete = NoTarget
    /\ clicked = [handler |-> "none"]
    /\ calls = << >>

\* The adapter not in use.
NoConv == [in |-> Null, ops |-> << >>, val |-> Null]

Init ==
    /\ StoreInit
    /\ FormInit
    /\ conv = NoConv

-----------------------------------------------------------------------------
(* GET /api/questions *)

\* Parameter resolution and the count query.
GetCount(p, page, limit, difficulty, ok) ==
    /\ Ready(p)
    /\ req' = [req EXCEPT ![p] = [op |-> "GET", page |-> page, limit |-> limit,
                                  difficulty |-> difficulty]]
    /\ UNCHANGED <<rows, hasHint1, nextId>>
    /\ IF ok
       THEN Goto(p, "get_probe",
                 [page |-> ResolvePage(page), limit |-> ResolveLimit(limit),
                  total |-> Cardinality(Matching(difficulty)), cols |-> FALSE])
       ELSE Finish(p, Json(500, ErrorBody))

\* The probe for the column hint1.
GetProbe(p, ok) ==
    /\ pc[p] = "get_probe"
    /\ UNCHANGED <<rows, hasHint1, nextId, req>>
    /\ IF ok
       THEN Goto(p, "get_data", [loc[p] EXCEPT !.cols = hasHint1])
       ELSE Finish(p, Json(500, ErrorBody))

\* The data query and the response.
GetData(p, ok) ==
    /\ pc[p] = "get_data"
    /\ UNCHANGED <<rows, hasHint1, nextId, req>>
    /\ IF ok
       THEN LET l == loc[p]
                offset == (l.page - 1) * l.limit
                ids == Page(OrderDesc(Matching(req[p].difficulty)), l.limit, offset)
                data == [k \in 1..Len(ids) |-> SelectRow(rows[ids[k]], l.cols)]
            IN  Finish(p, Json(200,
                    [page |-> l.page, limit |-> l.limit, total |-> l.total,
                     totalPages |-> TotalPages(l.total, l.limit),
                     count |-> Len(data), data |-> data]))
       ELSE Finish(p, Json(500, ErrorBody))

-----------------------------------------------------------------------------
(* POST /api/questions *)

Body(text, type, difficulty, answer, options, correctIndex, hint1) ==
    [text |-> text, type |-> type, difficulty |-> difficulty, answer |-> answer,
     options |-> options, correctIndex |-> correctIndex, hint1 |-> hint1]

Opts4 == Arr(<<Padded("A"), Word("B"), Word("C"), Word("D")>>)
Opts3 == Arr(<<Word("A"), Word("B"), Word("C")>>)
Opts4Blank == Arr(<<Word("A"), Blank, Word("C"), Word("D")>>)

CreateBodies ==
    { \* blank text
      Body(Blank, Word("OPEN"), Null, Padded("a"), Null, Null, Null),
      \* open question, difficulty omitted
      Body(Padded("q"), Word("OPEN"), Null, Padded("a"), Null, Null, Padded("h")),
      \* open question in the storage vocabulary, with a difficulty
      Body(Padded("q"), Word("discursiva"), Word("dificil"), Word("a"), Null, Null, Null),
      \* open question without an answer
      Body(Padded("q"), Word("discursiva"), Null, Blank, Null, Null, Null),
      \* multiple choice, correctIndex and answer omitted
      Body(Padded("q"), Word("MCQ"), Word("medio"), Null, Opts4, Null, Null),
      \* multiple choice in the storage vocabulary, correctIndex omitted, answer given,
      \* a difficulty outside the enumeration
      Body(Padded("q"), Word("multipla_escolha"), Word("banana"), Padded("a"), Opts4, Null, Null),
      \* multiple choice with a correctIndex in range / out of range
      Body(Padded("q"), Word("MCQ"), Word("medio"), Null, Opts4, Num(2), Null),
      Body(Padded("q"), Word("MCQ"), Word("medio"), Null, Opts4, Num(7), Null),
      \* multiple choice with three options, with a blank option, without options
      Body(Padded("q"), Word("MCQ"), Null, Null, Opts3, Null, Null),
      Body(Padded("q"), Word("MCQ"), Null, Null, Opts4Blank, Num(0), Null),
      Body(Padded("q"), Word("multipla_escolha"), Null, Word("a"), Null, Null, Null) }

\* The options taken as they come, without trim().
UntrimmedOptions(options) ==
    LET rawOptions == IF options.t = "arr" THEN options.v ELSE <<>>
    IN  [k \in 1..Len(rawOptions) |->
            IF rawOptions[k].t = "str" THEN rawOptions[k] ELSE Str(<<>>)]

\* rawOptions.map((o) => (typeof o === "string" ? o.trim() : ""))
TrimmedOptions(options) ==
    LET rawOptions == IF options.t = "arr" THEN options.v ELSE <<>>
    IN  [k \in 1..Len(rawOptions) |->
            IF rawOptions[k].t = "str" THEN trim(rawOptions[k]) ELSE Str(<<>>)]

OptionsFilled(trimmed) ==
    Len(trimmed) = 4 /\ \A k \in 1..Len(trimmed) : trimmed[k] # Str(<<>>)

ClampIndex(correctIndex) ==
    IF correctIndex.t = "num" /\ correctIndex.v >= 0 /\ correctIndex.v <= 3
    THEN correctIndex.v ELSE 0

DefaultDifficulty(difficulty) ==
    IF isNonEmptyString(difficulty) THEN difficulty ELSE Word("facil")

\* The per-type rules of POST: whether the body passes, and the values to insert.
CreateValues(body) ==
    LET dbType == toDbType(body.type)
        trimmed == TrimmedOptions(body.options)
        ci == ClampIndex(body.correctIndex)
        common == [text |-> trim(body.text),
                   difficulty |-> DefaultDifficulty(body.difficulty),
                   type |-> dbType,
                   hint1 |-> IF isNonEmptyString(body.hint1) THEN trim(body.hint1) ELSE Null,
                   saw |-> FALSE]
    IN  IF dbType = Word("multipla_escolha")
        THEN IF ~OptionsFilled(trimmed)
             THEN [valid |-> FALSE]
             ELSE [valid |-> TRUE,
                   values |-> common @@
                      [options |-> Arr(trimmed), correctIndex |-> Num(ci),
                       answer |-> IF isNonEmptyString(body.answer)
                                  THEN trim(body.answer) ELSE trimmed[ci + 1]]]
        ELSE IF ~isNonEmptyString(body.answer)
             THEN [valid |-> FALSE]
             ELSE [valid |-> TRUE,
                   values |-> common @@
                      [options |-> Null, correctIndex |-> Null,
                       answer |-> trim(body.answer)]]

\* The body passes the text check and the per-type rules.
Accepted(body) == isNonEmptyString(body.text) /\ CreateValues(body).valid

\* Requests that have passed validation and have not inserted yet.
PendingInserts == Cardinality({p \in Procs : pc[p] \in {"post_probe", "post_insert"}})

\* The id sequence has an id left, below the bound n, for one more insert.
Capacity(n) == nextId + PendingInserts <= n

\* The text check, ALTER TABLE ... ADD COLUMN IF NOT EXISTS hint1 (a failure
\* of which is swallowed), then the per-type rules.
PostAlter(p, body, ok) ==
    /\ Ready(p)
    /\ req' = [req EXCEPT ![p] = [op |-> "POST", body |-> body]]
    /\ UNCHANGED <<rows, nextId>>
    /\ IF ~isNonEmptyString(body.text)
       THEN /\ Finish(p, Json(400, ErrorBody))
            /\ UNCHANGED hasHint1
       ELSE /\ hasHint1' = IF ok THEN TRUE ELSE hasHint1
            /\ LET c == CreateValues(body)
               IN  IF c.valid
                   THEN Goto(p, "post_probe", c.values)
                   ELSE Finish(p, Json(400, ErrorBody))

\* A probe that takes the column hint1 to exist.
PostProbeAssumesColumn(p, ok) ==
    /\ pc[p] = "post_probe"
    /\ UNCHANGED <<rows, hasHint1, nextId, req>>
    /\ IF ok
       THEN Goto(p, "post_insert", [loc[p] EXCEPT !.saw = TRUE])
       ELSE Finish(p, Json(500, ErrorBody))

\* The probe for the column hint1.
PostProbe(p, ok) ==
    /\ pc[p] = "post_probe"
    /\ UNCHANGED <<rows, hasHint1, nextId, req>>
    /\ IF ok
       THEN Goto(p, "post_insert", [loc[p] EXCEPT !.saw = hasHint1])
       ELSE Finish(p, Json(500, ErrorBody))

\* The row INSERT ... RETURNING gives back, before the handler rewrites its type.
InsertedRow(l, id) ==
    [id |-> id, text |-> l.text, difficulty |-> l.difficulty, type |-> l.type,
     answer |-> l.answer, hint1 |-> IF l.saw THEN l.hint1 ELSE Null,
     options |-> l.options, correctIndex |-> l.correctIndex,
     createdAt |-> id, usedAt |-> Null]

\* The entity POST answers with.
CreatedEntity(r, saw) ==
    [r EXCEPT !.type = toApiType(r.type), !.hint1 = IF saw THEN r.hint1 ELSE Absent]

\* The insert and the response.  The statement names hint1 if the probe saw
\* the column, and a statement that names a column the table lacks fails.
PostInsert(p, ok) ==
    /\ pc[p] = "post_insert"
    /\ UNCHANGED <<hasHint1, req>>
    /\ IF ok /\ (loc[p].saw => hasHint1)
       THEN LET r == InsertedRow(loc[p], nextId)
            IN  /\ rows' = (nextId :> r) @@ rows
                /\ nextId' = nextId + 1
                /\ Finish(p, Json(201, CreatedEntity(r, loc[p].saw)))
       ELSE /\ UNCHANGED <<rows, nextId>>
            /\ Finish(p, Json(500, ErrorBody))

-----------------------------------------------------------------------------
(* PUT /api/questions/[id] *)

\* The [id] segment of the path, as Number(id) reads it.
IdParams(n) == {NaN} \cup {Num(i) : i \in 0..(n + 1)}

\* !numericId || isNaN(numericId)
InvalidId(id) == ~Truthy(id)

UpdateBodies ==
    { \* open question in the storage vocabulary
      Body(Word("r"), Word("discursiva"), Word("dificil"), Word("b"), Null, Null, Word("h2")),
      \* multiple choice in the external vocabulary
      Body(Word("r"), Word("MCQ"), Word("medio"), Word("B"), Opts4, Num(1), Null),
      \* multiple choice in the storage vocabulary, without options, correctIndex
      \* or difficulty
      Body(Word("r"), Word("multipla_escolha"), Null, Word("b"), Null, Null, Null) }

\* The id check and the probe for the column hint1.
PutProbe(p, id, body, ok) ==
    /\ Ready(p)
    /\ req' = [req EXCEPT ![p] = [op |-> "PUT", id |-> id, body |-> body]]
    /\ UNCHANGED <<rows, hasHint1, nextId>>
    /\ IF InvalidId(id)
       THEN Finish(p, Json(400, ErrorBody))
       ELSE IF ok
            THEN Goto(p, "put_update", [numericId |-> id.v, hasHint1 |-> hasHint1])
            ELSE Finish(p, Json(500, ErrorBody))

\* The update with created_at = now() in place of created_at = created_at.
UpdatedRowStamped(r, body, withHint1) ==
    [r EXCEPT !.text = body.text, !.difficulty = body.difficulty,
              !.type = body.type, !.answer = body.answer,
              !.hint1 = IF withHint1 THEN body.hint1 ELSE @,
              !.options = IF Truthy(body.options) THEN body.options ELSE Null,
              !.correctIndex = body.correctIndex,
              !.createdAt = nextId]

\* UPDATE questions SET ... , created_at = created_at WHERE id = $n, on one row.
UpdatedRow(r, body, withHint1) ==
    [r EXCEPT !.text = body.text, !.difficulty = body.difficulty,
              !.type = body.type, !.answer = body.answer,
              !.hint1 = IF withHint1 THEN body.hint1 ELSE @,
              !.options = IF Truthy(body.options) THEN body.options ELSE Null,
              !.correctIndex = body.correctIndex,
              !.createdAt = @]

\* RETURNING of the update: no used_at, hint1 only if the probe saw it.
UpdatedEntity(r, withHint1) ==
    [r EXCEPT !.hint1 = IF withHint1 THEN r.hint1 ELSE Absent, !.usedAt = Absent]

\* The update and the response.
PutUpdate(p, ok) ==
    /\ pc[p] = "put_update"
    /\ UNCHANGED <<hasHint1, nextId, req>>
    /\ LET l == loc[p]
       IN  IF ok
           THEN IF l.numericId \in Ids
                THEN LET r == UpdatedRow(rows[l.numericId], req[p].body, l.hasHint1)
                     IN  /\ rows' = [rows EXCEPT ![l.numericId] = r]
                         /\ Finish(p, Json(200, UpdatedEntity(r, l.hasHint1)))
                ELSE /\ UNCHANGED rows
                     /\ Finish(p, Json(404, ErrorBody))
           ELSE /\ UNCHANGED rows
                /\ Finish(p, Json(500, ErrorBody))

-----------------------------------------------------------------------------
(* DELETE /api/questions/[id] *)

\* DELETE FROM questions, the WHERE clause lost.
DeleteEveryRow(id) == << >>

\* DELETE FROM questions WHERE id = $1
DeleteRow(id) == [i \in Ids \ {id} |-> rows[i]]

Delete(p, id, ok) ==
    /\ Ready(p)
    /\ req' = [req EXCEPT ![p] = [op |-> "DELETE", id |-> id]]
    /\ UNCHANGED <<hasHint1, nextId, pc, loc>>
    /\ IF InvalidId(id)
       THEN /\ UNCHANGED rows
            /\ resp' = [resp EXCEPT ![p] = Json(400, ErrorBody)]
       ELSE IF ok
            THEN /\ rows' = DeleteRow(id.v)
                 /\ resp' = [resp EXCEPT ![p] =
                        IF id.v \in Ids THEN Json(200, MessageBody)
                                        ELSE Json(404, ErrorBody)]
            ELSE /\ UNCHANGED rows
                 /\ resp' = [resp EXCEPT ![p] = Json(500, ErrorBody)]

-----------------------------------------------------------------------------
(* Specifications *)

\* One statement of one request of a slot in S.  `outcomes` are the outcomes a
\* statement may have (TRUE: it succeeds, FALSE: it throws); `in` gives the
\* sets the requests are drawn from and the bound on the id sequence.
Step(S, outcomes, in) ==
    /\ UNCHANGED <<conv, confirmOpen, pendingDelete, clicked, calls>>
    /\ \E p \in S, ok \in outcomes :
        \/ \E page \in in.pages, limit \in in.limits, d \in in.difficulties :
              GetCount(p, page, limit, d, ok)
        \/ GetProbe(p, ok)
        \/ GetData(p, ok)
        \/ \E body \in in.creates :
              /\ Accepted(body) => Capacity(in.maxId)
              /\ PostAlter(p, body, ok)
        \/ PostProbe(p, ok)
        \/ PostInsert(p, ok)
        \/ \E id \in IdParams(in.maxId), body \in in.updates : PutProbe(p, id, body, ok)
        \/ PutUpdate(p, ok)
        \/ \E id \in IdParams(in.maxId) : Delete(p, id, ok)

\* Every create and update body, lists by the default page size and by one.
AllInputs ==
    [pages |-> {Null, Num(2)}, limits |-> {Null, Num(1)}, difficulties |-> DifficultyParams,
     creates |-> CreateBodies, updates |-> UpdateBodies, maxId |-> MaxId]

\* Requests served one at a time by a store whose statements succeed.
Next == Step({"p1"}, {TRUE}, AllInputs)

Spec == Init /\ [][Next]_vars

\* Requests served one at a time by a store whose statements may throw.
NextFault == Step({"p1"}, BOOLEAN, AllInputs)

SpecFault == Init /\ [][NextFault]_vars

\* Narrower bodies: two valid creates and a rejected one, one update; every
\* page number and page size.
NarrowInputs ==
    [pages |-> PageParams, limits |-> LimitParams, difficulties |-> DifficultyParams,
     creates |-> {Body(Padded("q"), Word("OPEN"), Null, Padded("a"), Null, Null, Padded("h")),
                  Body(Padded("q"), Word("MCQ"), Word("medio"), Null, Opts4, Null, Null),
                  Body(Padded("q"), Word("discursiva"), Null, Blank, Null, Null, Null)},
     updates |-> {Body(Word("r"), Word("discursiva"), Word("dificil"), Word("b"), Null, Null,
                       Word("h2"))},
     maxId |-> MaxIdNarrow]

\* Lists over a table of up to MaxIdNarrow rows, requests served one at a time.
NextList == Step({"p1"}, {TRUE}, NarrowInputs)

SpecList == Init /\ [][NextList]_vars

\* Requests of two slots, their statements interleaved in every order.
ConcInputs ==
    [NarrowInputs EXCEPT
        !.pages = {Null}, !.limits = {Num(1)}, !.difficulties = {Null},
        !.creates = {Body(Padded("q"), Word("OPEN"), Null, Padded("a"), Null, Null, Padded("h")),
                     Body(Padded("q"), Word("discursiva"), Null, Blank, Null, Null, Null)},
        !.maxId = MaxId]

NextConc == Step({"p1", "p2"}, {TRUE}, ConcInputs)

SpecConc == Init /\ [][NextConc]_vars

-----------------------------------------------------------------------------
(* The type-vocabulary adapter on its own: an input, and the conversions    *)
(* applied to it one after the other.                                       *)

\* The values given to the adapter: both vocabularies, and values outside
\* them (other case, padding, the empty string, null, a number).
TypeInputs ==
    {Word("OPEN"), Word("MCQ"), Word("discursiva"), Word("multipla_escolha"),
     Word("open"), Word("mcq"), Padded("MCQ"), Padded("discursiva"),
     Str(<<>>), Null, Num(1)}

ApplyToDbType ==
    /\ Len(conv.ops) < MaxConv
    /\ conv' = [conv EXCEPT !.ops = Append(@, "toDbType"), !.val = toDbType(@)]

ApplyToApiType ==
    /\ Len(conv.ops) < MaxConv
    /\ conv' = [conv EXCEPT !.ops = Append(@, "toApiType"), !.val = toApiType(@)]

InitAdapter ==
    /\ StoreInit
    /\ FormInit
    /\ \E t \in TypeInputs : conv = [in |-> t, ops |-> << >>, val |-> t]

NextAdapter ==
    /\ UNCHANGED <<storeVars, formVars>>
    /\ \/ ApplyToDbType
       \/ ApplyToApiType

SpecAdapter == InitAdapter /\ [][NextAdapter]_vars

-----------------------------------------------------------------------------
(* Concurrent valid create requests against a table without the column      *)
(* hint1.  An ADD COLUMN may fail; the probes and the inserts succeed.      *)

RaceCreates ==
    {Body(Padded("q"), Word("OPEN"), Null, Padded("a"), Null, Null, Padded("h")),
     Body(Padded("q"), Word("MCQ"), Word("medio"), Null, Opts4, Null, Null)}

InitRace ==
    /\ Init
    /\ hasHint1 = FALSE

NextRace ==
    /\ UNCHANGED <<conv, formVars>>
    /\ \E p \in Procs :
        \/ \E body \in RaceCreates, ok \in BOOLEAN :
              /\ Capacity(MaxIdNarrow)
              /\ PostAlter(p, body, ok)
        \/ PostProbe(p, TRUE)
        \/ PostInsert(p, TRUE)

SpecRace == InitRace /\ [][NextRace]_vars

-----------------------------------------------------------------------------
(* QuestionForm: the deletion dialog.  A click runs its handler to the end  *)
(* and the state it set is rendered before the next click is handled.       *)

\* The questions prop, as far as the dialog reads it.
Questions ==
    {[id |-> "id1", text |-> "text1"],
     [id |-> "id2", text |-> "text2"],
     [id |-> "id3", text |-> "text3"]}

requestDelete(q) ==
    /\ clicked' = [handler |-> "requestDelete", q |-> q]
    /\ pendingDelete' = [id |-> q.id, text |-> q.text]
    /\ confirmOpen' = TRUE
    /\ UNCHANGED calls

\* confirmDelete that closes the dialog and leaves its target recorded.
confirmDeleteKeepsTarget ==
    /\ clicked' = [handler |-> "confirmDelete"]
    /\ IF pendingDelete = NoTarget
       THEN UNCHANGED <<confirmOpen, pendingDelete, calls>>
       ELSE /\ calls' = Append(calls, pendingDelete.id)
            /\ confirmOpen' = FALSE
            /\ UNCHANGED pendingDelete

confirmDelete ==
    /\ clicked' = [handler |-> "confirmDelete"]
    /\ IF pendingDelete = NoTarget
       THEN UNCHANGED <<confirmOpen, pendingDelete, calls>>
       ELSE /\ calls' = Append(calls, pendingDelete.id)
            /\ confirmOpen' = FALSE
            /\ pendingDelete' = NoTarget

cancelDelete ==
    /\ clicked' = [handler |-> "cancelDelete"]
    /\ confirmOpen' = FALSE
    /\ pendingDelete' = NoTarget
    /\ UNCHANGED calls

InitForm ==
    /\ StoreInit
    /\ FormInit
    /\ conv = NoConv

NextForm ==
    /\ UNCHANGED <<storeVars, conv>>
    /\ \/ \E q \in Questions : requestDelete(q)
       \/ /\ pendingDelete # NoTarget => Len(calls) < MaxCalls
          /\ confirmDelete
       \/ cancelDelete

SpecForm == InitForm /\ [][NextForm]_vars

-----------------------------------------------------------------------------
(* Vocabulary of the claims *)

ApiTypes == {Word("OPEN"), Word("MCQ")}
StorageTags == {Word("discursiva"), Word("multipla_escolha")}
Difficulties == {Word("facil"), Word("medio"), Word("dificil")}

\* The external reading of a type tag given in either vocabulary.
ExternalOf(t) ==
    IF t \in {Word("MCQ"), Word("multipla_escolha")} THEN Word("MCQ") ELSE Word("OPEN")

\* Slot p has answered its latest request with status s.
Answered(p, op, s) == pc[p] = "ready" /\ req[p].op = op /\ resp[p].status = s

\* The step is one of slot p: a step changes the slot of the request that
\* takes it, and only that slot.
StepOf(p) == <<pc[p], req[p], loc[p], resp[p]>> # <<pc'[p], req'[p], loc'[p], resp'[p]>>

FilledOption(o) == o.t = "str" /\ o.v # <<>> /\ Head(o.v) # " " /\ o.v[Len(o.v)] # " "

WellFormedMcq(r) ==
    /\ r.options.t = "arr"
    /\ Len(r.options.v) = 4
    /\ \A k \in 1..4 : FilledOption(r.options.v[k])
    /\ r.correctIndex.t = "num"
    /\ r.correctIndex.v \in 0..3

-----------------------------------------------------------------------------
(* Claims *)

\* C1: in every reachable state, every stored question whose type is
\* multiple-choice has exactly 4 non-empty options and a correctIndex in [0,3].
C1_McqRowsWellFormed ==
    \A i \in Ids : rows[i].type = Word("multipla_escolha") => WellFormedMcq(rows[i])

\* A create answered 400 in this step.
CreateRejected(p) ==
    /\ StepOf(p)
    /\ pc[p] = "ready" /\ pc'[p] = "ready"
    /\ req'[p].op = "POST" /\ resp'[p].status = 400

\* C2: a create that fails with a ValidationError has issued no state-changing
\* statement: the rows and the presence of the column hint1 are as before it.
C2_NoWriteOnValidationFailure ==
    [][\A p \in Procs : CreateRejected(p) => rows' = rows /\ hasHint1' = hasHint1]_vars

\* C3: every question an operation returns (each row of a list, the entity of
\* a create, the entity of an update) has its type in the external vocabulary.
C3_ReturnedTypesExternal ==
    \A p \in Procs :
        /\ Answered(p, "GET", 200) =>
              \A k \in 1..Len(resp[p].body.data) : resp[p].body.data[k].type \in ApiTypes
        /\ Answered(p, "POST", 201) => resp[p].body.type \in ApiTypes
        /\ Answered(p, "PUT", 200) => resp[p].body.type \in ApiTypes

\* C4: the stored type of every row is one of the two storage tags, and a list
\* reports every row with the external reading of the type it was last written
\* with.
C4_TypeRoundTrips ==
    /\ \A i \in Ids : rows[i].type \in StorageTags
    /\ \A p \in Procs :
          Answered(p, "GET", 200) =>
             \A k \in 1..Len(resp[p].body.data) :
                LET d == resp[p].body.data[k]
                IN  d.id \in Ids => d.type = ExternalOf(rows[d.id].type)

\* C5: the difficulty of every stored question is easy, medium or hard, and a
\* create that does not specify a difficulty stores the easy value.
C5_DifficultyEnumerated ==
    /\ \A i \in Ids : rows[i].difficulty \in Difficulties
    /\ \A p \in Procs :
          Answered(p, "POST", 201) /\ req[p].body.difficulty = Null =>
             resp[p].body.difficulty = Word("facil")

\* Slot p has created a multiple-choice question from a body without correctIndex.
McqCreatedWithoutIndex(p) ==
    /\ Answered(p, "POST", 201)
    /\ req[p].body.type \in {Word("MCQ"), Word("multipla_escolha")}
    /\ req[p].body.correctIndex = Null
    /\ resp[p].body.id \in Ids

\* C6 as stated: a valid multiple-choice create with correctIndex omitted
\* persists correctIndex = 0 and answer = the first trimmed option.
C6_DefaultIndexAndAnswer ==
    \A p \in Procs :
        McqCreatedWithoutIndex(p) =>
           LET r == rows[resp[p].body.id]
           IN  /\ r.correctIndex = Num(0)
               /\ r.answer = trim(req[p].body.options.v[1])

\* C6 amended: a valid multiple-choice create with correctIndex omitted
\* persists correctIndex = 0; its answer is the first trimmed option when the
\* body gives no non-blank answer, and the trimmed answer of the body otherwise.
C6_DefaultIndexAnswerUnlessGiven ==
    \A p \in Procs :
        McqCreatedWithoutIndex(p) =>
           LET r == rows[resp[p].body.id]
               given == req[p].body.answer
           IN  /\ r.correctIndex = Num(0)
               /\ r.answer = IF given.t = "str" /\ trim(given).v # <<>>
                             THEN trim(given)
                             ELSE trim(req[p].body.options.v[1])

\* A create without correctIndex and without answer, whose first option is
\* padded, has persisted its row.
C6_Witness ==
    \E p \in Procs :
        /\ McqCreatedWithoutIndex(p)
        /\ req[p].body.answer = Null
        /\ req[p].body.options.v[1] # trim(req[p].body.options.v[1])
        /\ rows[resp[p].body.id].answer = Word("A")

\* An id the handlers of /api/questions/[id] reject: not a number, or zero.
RejectedId(id) == id = NaN \/ id = Num(0)

\* A delete answered in this step.
DeleteStep(p) ==
    StepOf(p) /\ pc[p] = "ready" /\ pc'[p] = "ready" /\ req'[p].op = "DELETE"

\* The step removes row i and nothing else.
RemovesOnly(i) ==
    /\ DOMAIN rows' = Ids \ {i}
    /\ \A j \in DOMAIN rows' : rows'[j] = rows[j]

\* No id is given to two rows: a new row takes the next id of the sequence.
IdsNotReused ==
    /\ \A i \in DOMAIN rows' \ Ids : i = nextId /\ nextId' = nextId + 1
    /\ \A i \in Ids : i < nextId
    /\ nextId' >= nextId

\* Two slots whose latest requests are deletes of the same id have not both
\* been answered 200.
OneSuccessPerId ==
    \A p, q \in Procs :
        p # q /\ Answered(p, "DELETE", 200) /\ Answered(q, "DELETE", 200) =>
           req[p].id # req[q].id

UpdateStep(p) == StepOf(p) /\ pc[p] = "put_update" /\ pc'[p] = "ready"

\* The first step of an update of slot p.
UpdateFirstStep(p) == StepOf(p) /\ pc[p] = "ready" /\ req'[p].op = "PUT"

\* Row i after the step is row i before it with the mutable fields of body b,
\* and e is that row as the update returns it.
Replaced(i, b, e) ==
    /\ rows'[i].id = i
    /\ rows'[i].createdAt = rows[i].createdAt
    /\ rows'[i].usedAt = rows[i].usedAt
    /\ rows'[i].text = b.text /\ rows'[i].difficulty = b.difficulty
    /\ rows'[i].type = b.type /\ rows'[i].answer = b.answer
    /\ rows'[i].options = (IF b.options.t = "arr" THEN b.options ELSE Null)
    /\ rows'[i].correctIndex = b.correctIndex
    /\ hasHint1 => rows'[i].hint1 = b.hint1 /\ e.hint1 = b.hint1
    /\ <<e.id, e.text, e.difficulty, e.type, e.answer, e.options, e.correctIndex,
         e.createdAt>>
       = <<i, b.text, b.difficulty, b.type, b.answer, rows'[i].options,
           b.correctIndex, rows[i].createdAt>>

\* The update statement on an id: full replace of one row, or 404.
UpdateEffect(p) ==
    LET i == req[p].id.v
    IN  IF i \in Ids
        THEN /\ resp'[p].status = 200
             /\ DOMAIN rows' = Ids
             /\ \A j \in Ids \ {i} : rows'[j] = rows[j]
             /\ Replaced(i, req[p].body, resp'[p].body)
        ELSE resp'[p].status = 404 /\ rows' = rows

SchemaStatementStep(p) ==
    /\ StepOf(p)
    /\ \/ pc[p] \in {"get_probe", "post_probe"}
       \/ pc[p] = "ready" /\ req'[p].op = "POST"
       \/ pc[p] = "ready" /\ req'[p].op = "PUT"

\* C9: a failure of the probe for hint1 or of the add-column statement is
\* never surfaced: no step that issues one of them ends its request with 500.
C9_SchemaFailureNotSurfaced ==
    [][\A p \in Procs : SchemaStatementStep(p) => resp'[p].status # 500]_vars

\* The page size a list request resolves to.
ResolvedLimit(raw) ==
    IF raw.t = "num" /\ raw.v > 0 /\ raw.v <= 200 THEN raw.v ELSE 5

\* The rows a difficulty filter matches.
Filtered(d) == {i \in Ids : d = Null \/ rows[i].difficulty = d}

\* n = max(1, ceil(total / limit))
IsPageCount(n, total, limit) ==
    /\ n >= 1
    /\ total = 0 => n = 1
    /\ total > 0 => (n - 1) * limit < total /\ total <= n * limit

\* C10: every list response has totalPages = max(1, ceil(total / limit)), limit
\* the requested page size when it is finite, > 0 and <= 200 and 5 otherwise,
\* total the number of rows matching the difficulty filter.
C10_TotalPages ==
    \A p \in Procs :
        Answered(p, "GET", 200) =>
           LET b == resp[p].body
           IN  /\ b.limit = ResolvedLimit(req[p].limit)
               /\ b.total = Cardinality(Filtered(req[p].difficulty))
               /\ IsPageCount(b.totalPages, b.total, b.limit)

\* A list of three rows by pages of two has answered totalPages = 2.
C10_Witness ==
    \E p \in Procs :
        /\ Answered(p, "GET", 200)
        /\ req[p].limit = Num(2)
        /\ resp[p].body.total = 3
        /\ resp[p].body.totalPages = 2

-----------------------------------------------------------------------------
(* C11 *)

\* The input is in neither vocabulary.
OutsideVocabularies(t) == t \notin ApiTypes \cup StorageTags

\* C11: the adapter is total and round-trips: toApiType(toDbType(t)) = t for
\* t in {OPEN, MCQ}; toDbType(toApiType(s)) = s for s one of the two storage
\* tags; an input outside both vocabularies is mapped to the discursive
\* storage tag by toDbType and to OPEN by toApiType; and whatever the input,
\* toDbType yields a storage tag and toApiType an external type.
C11_AdapterRoundTrips ==
    /\ (conv.ops = <<"toDbType", "toApiType">> /\ conv.in \in ApiTypes)
            => conv.val = conv.in
    /\ (conv.ops = <<"toApiType", "toDbType">> /\ conv.in \in StorageTags)
            => conv.val = conv.in
    /\ (conv.ops = <<"toDbType">> /\ OutsideVocabularies(conv.in))
            => conv.val = Word("discursiva")
    /\ (conv.ops = <<"toApiType">> /\ OutsideVocabularies(conv.in))
            => conv.val = Word("OPEN")
    /\ (conv.ops # << >> /\ conv.ops[Len(conv.ops)] = "toDbType")
            => conv.val \in StorageTags
    /\ (conv.ops # << >> /\ conv.ops[Len(conv.ops)] = "toApiType")
            => conv.val \in ApiTypes

\* MCQ has gone to its storage tag and back.
C11_Witness ==
    /\ conv.in = Word("MCQ")
    /\ conv.ops = <<"toDbType", "toApiType">>
    /\ conv.val = Word("MCQ")

-----------------------------------------------------------------------------
(* C12 *)

Idle == ~confirmOpen /\ pendingDelete = NoTarget

PendingConfirm == confirmOpen /\ pendingDelete # NoTarget

\* C12: the dialog is open exactly when a target is recorded, and a recorded
\* target is the question of the latest requestDelete; onDelete is called
\* only by confirmDelete run in PendingConfirm, once, with the id of that
\* question; cancelDelete, and confirmDelete run in Idle, call nothing; and
\* after confirmDelete or cancelDelete the dialog is Idle.
C12_DialogProtocol ==
    /\ [](Idle \/ PendingConfirm)
    /\ [](PendingConfirm =>
            /\ clicked.handler = "requestDelete"
            /\ pendingDelete = [id |-> clicked.q.id, text |-> clicked.q.text])
    /\ [][calls' # calls =>
            /\ clicked'.handler = "confirmDelete"
            /\ PendingConfirm]_vars
    /\ [][clicked'.handler = "confirmDelete" =>
            /\ IF PendingConfirm
               THEN calls' = Append(calls, clicked.q.id)
               ELSE calls' = calls
            /\ Idle']_vars
    /\ [][clicked'.handler = "cancelDelete" => calls' = calls /\ Idle']_vars
    /\ [][clicked'.handler = "requestDelete" => calls' = calls /\ PendingConfirm']_vars

\* Two deletions have been confirmed, the second one after its question
\* replaced another one in the open dialog or followed the first.
C12_Witness ==
    /\ calls = <<"id2", "id1">>
    /\ clicked.handler = "confirmDelete"
    /\ Idle

-----------------------------------------------------------------------------
(* C13 *)

\* The row of the request slot p has answered with 201 is in the table, with
\* the values of the request.
Persisted(p) ==
    /\ resp[p].body.id \in Ids
    /\ LET r == rows[resp[p].body.id]
           b == req[p].body
       IN  /\ r.text = trim(b.text)
           /\ r.type = toDbType(b.type)
           /\ r.type = Word("multipla_escolha") => r.options = Arr(TrimmedOptions(b.options))
           /\ r.type = Word("discursiva") => r.answer = trim(b.answer)

\* The insert of the request slot p has answered named the column hint1: the
\* column is then among those the statement returns.
NamedHint1(p) == resp[p].body.hint1 # Absent

\* C13: whatever the interleaving of the add-column, probe and insert of
\* concurrent valid create requests against a table that starts without the
\* column hint1, and whichever add-column fails, every request is answered
\* with 201 and its row is in the table; what a request's probe records is
\* what the table was at the probe; and an insert names hint1 only if the
\* probe of its own request saw the column.
C13_CreateRaceHeals ==
    /\ [](\A p \in Procs : (pc[p] = "ready" /\ req[p].op = "POST") =>
            /\ resp[p].status = 201
            /\ Persisted(p))
    /\ [][\A p \in Procs : (pc[p] = "post_probe" /\ pc'[p] # "post_probe") =>
            /\ pc'[p] = "post_insert"
            /\ loc'[p].saw = hasHint1]_vars
    /\ [][\A p \in Procs : (pc[p] = "post_insert" /\ pc'[p] # "post_insert") =>
            /\ resp'[p].status = 201
            /\ NamedHint1(p)' => loc[p].saw]_vars

\* Three requests are answered with 201, and one that did not name hint1 was
\* inserted after one that did and whose hint is stored: its probe ran before
\* the column was added, its insert after the other request's.
C13_Witness ==
    /\ \A p \in Procs : pc[p] = "ready" /\ req[p].op = "POST" /\ resp[p].status = 201
    /\ {resp[p].body.id : p \in Procs} = 1..3
    /\ hasHint1
    /\ \E p, q \in Procs :
          /\ ~NamedHint1(p)
          /\ NamedHint1(q)
          /\ resp[p].body.id > resp[q].body.id
          /\ rows[resp[q].body.id].hint1 = Word("h")

=============================================================================
